---- MODULE Spec2Model ----
(***************************************************************************)
(* Model of mathematics_dataset: the measurement problem generators        *)
(* (modules/measurement.py: conversion, time) and the file-writing driver  *)
(* (generate_to_file.py: main, generate_to_file).                          *)
(*                                                                         *)
(* Spec      one worker calling the generators one call after another.     *)
(* SpecPool  main handing its tasks to the worker pool.                    *)
(***************************************************************************)
EXTENDS Integers, Sequences, FiniteSets, TLC

VARIABLES
    pc,                 \* position of the generator call in progress
    module,             \* the generator that is running / has returned
    is_train,           \* argument is_train of the call
    is_extrapolation,   \* argument is_extrapolation of conversion()
    start_minutes,      \* time(): local start_minutes
    duration_minutes,   \* time(): local duration_minutes (last draw)
    end_minutes,        \* time(): local end_minutes
    which_question,     \* time(): local which_question
    dimension,          \* conversion: index into DIMENSIONS of the chosen dict
    entropy,            \* _sample_conversion_decimal: local entropy
    allow_zero,         \* _conversion_fraction: local allow_zero
    base_unit,          \* conversion: local base_unit (last draw)
    target_unit,        \* conversion: local target_unit (last draw)
    base_value,         \* conversion: local base_value (last draw)
    answer,             \* conversion: target_value / answer (last draw)
    attempts,           \* number of rejected candidates of the running loop
    problem,            \* the example.Problem returned by the last call
    all_regime_args,    \* main(): the task list
    regimes_left,       \* main(): regimes the for loop has not visited yet
    made_dirs,          \* directories created by os.mkdir
    taskpc,             \* per task: "queued", "taken", "open", "closed", "done"
    written,            \* per task: number of loop iterations completed
    files,              \* file system: path -> sequence of records
    openers             \* path -> set of tasks holding the file open

genVars == <<pc, module, is_train, is_extrapolation, start_minutes,
             duration_minutes, end_minutes, which_question, dimension,
             entropy, allow_zero, base_unit, target_unit, base_value,
             answer, attempts, problem>>

poolVars == <<all_regime_args, regimes_left, made_dirs, taskpc, written,
              files, openers>>

vars == <<genVars, poolVars>>

\* Python's None, as the symbol of a unit that has none.
None == "None"

\* Value of a local that has not been assigned in the current call.
Unset == [unset |-> TRUE]

-----------------------------------------------------------------------------
(* Bounds of the model.                                                    *)

\* random.randint(1, 24*60-1) is enumerated on the multiples of StartStride
\* plus the two ends of the range.
StartStride == 26
\* random.randint(1, 12*60-1) is enumerated on the multiples of
\* DurationStride plus the two ends of the range.
DurationStride == 5
\* number.non_integer_decimal draws base / 10^shift with base <= MaxBase ...
MaxBase == 12
\* ... and shift <= MaxShift.
MaxShift == 2
\* number.non_integer_rational draws numer <= MaxNumer ...
MaxNumer == 5
\* ... and denom <= MaxDenom.
MaxDenom == 6
\* The rejection counter stops counting above RetryLimit.
RetryLimit == 2

-----------------------------------------------------------------------------
(* Exact rationals (sympy.Rational).  Unit scales reach 10^15, beyond the  *)
(* 32-bit integers TLC computes with, so a rational is kept factored:       *)
(*    n / d * 2^e[2] * 3^e[3] * 5^e[5] * 7^e[7]                            *)
(* with n, d >= 0 coprime to each other and to 2, 3, 5, 7.  The form is    *)
(* canonical (lowest terms), so equal rationals are equal records.         *)

SmallPrimes == {2, 3, 5, 7}

Min(a, b) == IF a <= b THEN a ELSE b

Max(a, b) == IF a >= b THEN a ELSE b

RECURSIVE Gcd(_, _)
Gcd(a, b) == IF b = 0 THEN a ELSE Gcd(b, a % b)

RECURSIVE Pow(_, _)
Pow(b, k) == IF k <= 0 THEN 1 ELSE b * Pow(b, k - 1)

\* Exponent of the prime p in k >= 1.
RECURSIVE Valuation(_, _)
Valuation(k, p) == IF k % p # 0 THEN 0 ELSE 1 + Valuation(k \div p, p)

\* k >= 1 without its factors p.
RECURSIVE StripPrime(_, _)
StripPrime(k, p) == IF k % p # 0 THEN k ELSE StripPrime(k \div p, p)

Cofactor(k) == StripPrime(StripPrime(StripPrime(StripPrime(k, 2), 3), 5), 7)

ZeroExp == [p \in SmallPrimes |-> 0]

Zero == [n |-> 0, d |-> 1, e |-> ZeroExp]

\* sympy.Rational(numer, denom) for machine-size numer >= 0, denom >= 1.
Rational(numer, denom) ==
    IF numer = 0 THEN Zero
    ELSE LET g == Gcd(numer, denom)
             a == numer \div g
             b == denom \div g
         IN  [n |-> Cofactor(a), d |-> Cofactor(b),
              e |-> [p \in SmallPrimes |-> Valuation(a, p) - Valuation(b, p)]]

\* sympy.Rational(1, 1e<k>): the float 1e<k> is an exact power of ten.
OneOverTenTo(k) == [n |-> 1, d |-> 1, e |-> [p \in SmallPrimes |->
                        IF p \in {2, 5} THEN 0 - k ELSE 0]]

IsZero(a) == a.n = 0

\* a * b
RMul(a, b) ==
    IF IsZero(a) \/ IsZero(b) THEN Zero
    ELSE LET g1 == Gcd(a.n, b.d)
             g2 == Gcd(b.n, a.d)
         IN  [n |-> (a.n \div g1) * (b.n \div g2),
              d |-> (a.d \div g2) * (b.d \div g1),
              e |-> [p \in SmallPrimes |-> a.e[p] + b.e[p]]]

\* a / b for b # 0
RDiv(a, b) ==
    RMul(a, [n |-> b.d, d |-> b.n, e |-> [p \in SmallPrimes |-> 0 - b.e[p]]])

\* sympy.denom(a) == 1
DenomIsOne(a) == a.d = 1 /\ \A p \in SmallPrimes : a.e[p] >= 0

\* Saturating arithmetic for comparisons: products stop at Huge.
Huge == Pow(2, 30)

SatMul(x, y) == IF x = 0 \/ y = 0 THEN 0
                ELSE IF x >= Huge \/ y >= Huge \/ x > Huge \div y THEN Huge
                ELSE x * y

RECURSIVE SatPow(_, _)
SatPow(b, k) == IF k <= 0 THEN 1 ELSE SatMul(b, SatPow(b, k - 1))

\* numerator and denominator of a in lowest terms, saturated at Huge
SatNumer(a) ==
    SatMul(SatMul(SatMul(SatMul(a.n, SatPow(2, a.e[2])), SatPow(3, a.e[3])),
                  SatPow(5, a.e[5])), SatPow(7, a.e[7]))

SatDenom(a) ==
    SatMul(SatMul(SatMul(SatMul(a.d, SatPow(2, 0 - a.e[2])), SatPow(3, 0 - a.e[3])),
                  SatPow(5, 0 - a.e[5])), SatPow(7, 0 - a.e[7]))

\* abs(a) <= bound, for an integer bound (values here are never negative:
\* every sampler is called with signed=False and every scale is positive).
AbsLeq(a, bound) ==
    LET num == SatNumer(a)
        rhs == SatMul(bound, SatDenom(a))
    IN  num < Huge /\ num <= rhs

\* The comparison above is exact unless both sides saturate.
Comparable(a, bound) ==
    SatNumer(a) < Huge \/ SatMul(bound, SatDenom(a)) < Huge

-----------------------------------------------------------------------------
(* Units and dimensions (measurement.py, lines 65-114).                    *)

Unit(name, symbol) == [name |-> name, symbol |-> symbol]

\* MICRO_SYMBOL + "s" and MICRO_SYMBOL + "g" are written out: "us", "ug".
LENGTH ==
    (Unit("meter", "m") :> Rational(1, 1)) @@
    (Unit("kilometer", "km") :> Rational(1000, 1)) @@
    (Unit("centimeter", "cm") :> Rational(1, 100)) @@
    (Unit("millimeter", "mm") :> Rational(1, 1000)) @@
    (Unit("mikrometer", "um") :> OneOverTenTo(6)) @@
    (Unit("nanometer", "nm") :> OneOverTenTo(9))

TIME ==
    (Unit("sekund", "s") :> Rational(1, 1)) @@
    (Unit("minut", None) :> Rational(60, 1)) @@
    (Unit("time", None) :> Rational(60 * 60, 1)) @@
    (Unit("dag", None) :> Rational(24 * 60 * 60, 1)) @@
    (Unit("uge", None) :> Rational(7 * 24 * 60 * 60, 1)) @@
    (Unit("millisekund", "ms") :> OneOverTenTo(3)) @@
    (Unit("mikrosekund", "us") :> OneOverTenTo(6)) @@
    (Unit("nanosekund", "ns") :> OneOverTenTo(9))

TIME_YEARLY ==
    (Unit("aar", None) :> Rational(1, 1)) @@
    (Unit("aarti", None) :> Rational(10, 1)) @@
    (Unit("aarhundrede", None) :> Rational(100, 1)) @@
    (Unit("aartusinde", None) :> Rational(1000, 1)) @@
    (Unit("maaned", None) :> Rational(1, 12))

MASS ==
    (Unit("kilogram", "kg") :> Rational(1, 1)) @@
    (Unit("ton", "t") :> Rational(1000, 1)) @@
    (Unit("gram", "g") :> OneOverTenTo(3)) @@
    (Unit("milligram", "mg") :> OneOverTenTo(6)) @@
    (Unit("mikrogram", "ug") :> OneOverTenTo(9)) @@
    (Unit("nanogram", "ng") :> OneOverTenTo(12))

VOLUME ==
    (Unit("liter", "l") :> Rational(1, 1)) @@
    (Unit("milliliter", "ml") :> Rational(1, 1000))

DIMENSIONS == <<LENGTH, TIME, TIME_YEARLY, MASS, VOLUME>>

\* random.sample(list(dimension.keys()), 2): ordered pairs of distinct keys
SamplePairs(dim) ==
    {pair \in (DOMAIN dim) \X (DOMAIN dim) : pair[1] # pair[2]}

\* pluralize(name).  The unit names are ASCII here ("aa" for the Danish a-ring);
\* the substring tests of the code are tabulated over the unit names.
ContainsGramMeterLiterTon(name) ==
    name \in {"meter", "kilometer", "centimeter", "millimeter", "mikrometer",
              "nanometer", "kilogram", "ton", "gram", "milligram", "mikrogram",
              "nanogram", "liter", "milliliter"}

pluralize(name) ==
    IF name = "aarhundrede" THEN "aarhundreder"
    ELSE IF name = "aartusinde" THEN "aartusinder"
    ELSE IF name = "aar" THEN "aar"
    ELSE IF name = "uge" THEN "uger"
    ELSE IF name = "minut" THEN "minutter"
    ELSE IF name = "dag" THEN "dage"
    ELSE IF name = "time" THEN "timer"
    ELSE IF ContainsGramMeterLiterTon(name) THEN name
    ELSE <<name, "er">>

-----------------------------------------------------------------------------
(* Collaborators that are not part of the two source files: the display    *)
(* wrappers, the samplers and the train/test partitioner.                  *)

\* display.Decimal(value): the exact value, marked for decimal rendering.
Decimal(value) == [value |-> value]

\* display.StringNumber(value): the exact value, marked for rendering in words.
StringNumber(value) == [words |-> value]

\* number.non_integer_decimal(entropy, signed=False): base / 10^shift with a
\* non-zero fractional part, base below 10^entropy.
non_integer_decimal(ent) ==
    {Decimal(Rational(b, Pow(10, s))) :
        <<b, s>> \in {bs \in (1..MaxBase) \X (1..Min(MaxShift, ent)) :
                         /\ bs[1] % Pow(10, bs[2]) # 0
                         /\ bs[1] < Pow(10, Min(ent, 9))}}

\* number.non_integer_rational(entropy, signed=False): numer / denom in lowest
\* terms with denom # 1, numer * denom within 10^entropy.
non_integer_rational(ent) ==
    {Rational(nd[1], nd[2]) :
        nd \in {x \in (1..MaxNumer) \X (2..MaxDenom) :
                   /\ Gcd(x[1], x[2]) = 1
                   /\ x[1] * x[2] <= Pow(10, ent)}}

\* train_test_split.is_train(value): a fixed hash of the exact value
\* (numerator, denominator) decides the side.
Hash(v) ==
    (7 * v.n + 13 * v.d + 3 * v.e[2] + 5 * v.e[3] + 11 * v.e[5] + 17 * v.e[7]) % 4

split_is_train(v) == Hash(v) # 0

-----------------------------------------------------------------------------
(* measurement.py: conversion in decimal form.                             *)

IsPrime(q) == q >= 2 /\ \A r \in 2..(q - 1) : q % r # 0

\* sympy.denom(a), as a factored natural number
Denom(a) == [k |-> a.d, e |-> [p \in SmallPrimes |-> Max(0, 0 - a.e[p])]]

\* sympy.factorint(value): the set of <<factor, power>>
factorint(value) ==
    {<<p, value.e[p]>> : p \in {q \in SmallPrimes : value.e[q] > 0}}
    \cup {<<p, Valuation(value.k, p)>> :
            p \in {q \in 2..value.k : value.k % q = 0 /\ IsPrime(q)}}

RECURSIVE ProductOfPowers(_)
ProductOfPowers(factors) ==
    IF factors = {} THEN 1
    ELSE LET f == CHOOSE x \in factors : TRUE
         IN  Pow(f[1], f[2]) * ProductOfPowers(factors \ {f})

\* _factor_non_decimal with "result *= factor": the power forgotten
factor_non_decimal_NoPower(value) ==
    ProductOfPowers({<<f[1], 1>> : f \in {g \in factorint(value) : g[1] \notin {2, 5}}})

\* _factor_non_decimal(value), lines 137-144
factor_non_decimal(value) ==
    ProductOfPowers({f \in factorint(value) : f[1] \notin {2, 5}})

\* the same entropy in both regimes
DecimalEntropySame(extrapolation) == 7

\* entropy = 9 if is_extrapolation else 7, line 152
DecimalEntropy(extrapolation) == IF extrapolation THEN 9 ELSE 7

\* _sample_conversion_decimal with the target computed from the value as
\* drawn, before its multiplication by scale_non_decimal
sample_conversion_decimal_Unscaled(dim, pair, drawn) ==
    LET scale == RDiv(dim[pair[1]], dim[pair[2]])
        scale_non_decimal == factor_non_decimal(Denom(scale))
        shown == Decimal(RMul(drawn.value, Rational(scale_non_decimal, 1)))
    IN  [base_value |-> shown, base_unit |-> pair[1],
         target_value |-> Decimal(RMul(drawn.value, scale)),
         target_unit |-> pair[2]]

\* _sample_conversion_decimal(dimension, is_extrapolation), lines 147-156,
\* for the unit pair and the number the random source yields
sample_conversion_decimal(dim, pair, drawn) ==
    LET scale == RDiv(dim[pair[1]], dim[pair[2]])
        scale_non_decimal == factor_non_decimal(Denom(scale))
        shown == Decimal(RMul(drawn.value, Rational(scale_non_decimal, 1)))
    IN  [base_value |-> shown, base_unit |-> pair[1],
         target_value |-> Decimal(RMul(shown.value, scale)),
         target_unit |-> pair[2]]

\* every outcome of the call in lines 163-165, per dimension and regime
DecimalSamples ==
    [dim \in 1..Len(DIMENSIONS) |-> [extrapolation \in BOOLEAN |->
        {sample_conversion_decimal(DIMENSIONS[dim], pair, drawn) :
            pair \in SamplePairs(DIMENSIONS[dim]),
            drawn \in non_integer_decimal(DecimalEntropy(extrapolation))}]]

\* the exit test applied to the target value instead of the base value
DecimalOnSideOfTarget(sample, side) ==
    split_is_train(sample.target_value.value) = side

\* the loop's exit test, line 166
DecimalOnSide(sample, side) == split_is_train(sample.base_value.value) = side

\* number of templates to choose from, lines 169-180
DecimalTemplates(unit) == IF unit.symbol # None THEN 6 ELSE 3

-----------------------------------------------------------------------------
(* measurement.py: conversion in fraction form.                            *)

\* the answer with floor division ("//") in place of "/"
FractionAnswerFloor(value, base_scale, target_scale) ==
    LET exact == RDiv(RMul(value, base_scale), target_scale)
    IN  IF DenomIsOne(exact) THEN exact
        ELSE IF SatNumer(exact) < SatDenom(exact) THEN Zero
        ELSE Rational(SatNumer(exact) \div SatDenom(exact), 1)

\* lines 210-214
FractionAnswer(value, base_scale, target_scale) ==
    RDiv(RMul(value, base_scale), target_scale)

\* every outcome of the draws in lines 206-207, per dimension
FractionDraws ==
    [dim \in 1..Len(DIMENSIONS) |->
        {[base_unit |-> pair[1], target_unit |-> pair[2], base_value |-> value] :
            pair \in SamplePairs(DIMENSIONS[dim]),
            value \in non_integer_rational(2)}]

\* the exit test without the integrality condition
FractionAcceptAnyDenominator(ans, zero_allowed) ==
    /\ AbsLeq(ans, 100000)
    /\ (zero_allowed \/ ~IsZero(ans))

\* the loop's exit test, lines 215-219
FractionAccepts(ans, zero_allowed) ==
    /\ AbsLeq(ans, 100000)
    /\ DenomIsOne(ans)
    /\ (zero_allowed \/ ~IsZero(ans))

-----------------------------------------------------------------------------
(* measurement.py: time.                                                   *)

\* random.randint(1, 24 * 60 - 1), line 259
StartDraws ==
    {1, 24 * 60 - 1} \cup {s \in 1..(24 * 60 - 1) : s % StartStride = 0}

\* random.randint(1, 12 * 60 - 1), line 261
DurationDraws ==
    {1, 12 * 60 - 1} \cup {d \in 1..(12 * 60 - 1) : d % DurationStride = 0}

\* random.randint(0, 3), line 275
WhichDraws == 0..3

DigitChars == <<"0", "1", "2", "3", "4", "5", "6", "7", "8", "9">>

\* "{:02}".format(k) for 0 <= k < 100
TwoDigits(k) == <<DigitChars[(k \div 10) + 1], DigitChars[(k % 10) + 1]>>

\* format_24hr with the hours not reduced modulo 24
format_24hr_NoWrap(minutes) ==
    TwoDigits(minutes \div 60) \o <<":">> \o TwoDigits(minutes % 60)

\* format_24hr(minutes), lines 266-270
format_24hr(minutes) ==
    LET hours == (minutes \div 60) % 24
    IN  TwoDigits(hours) \o <<":">> \o TwoDigits(minutes % 60)

\* the form of the question asked for each value of which_question, lines 276-312
QuestionForm(w) ==
    IF w = 0 THEN "start" ELSE IF w = 1 THEN "end" ELSE "duration"

\* the Problem time() returns, lines 276-312
TimeProblem(w, duration, start, end) ==
    IF w = 0
    THEN [question |-> [template |-> "Hvad er {duration} minutter foer {end}?",
                        duration |-> duration, end |-> end],
          answer |-> start]
    ELSE IF w = 1
    THEN [question |-> [template |-> "Hvad er {duration} minutter efter {start}?",
                        duration |-> duration, start |-> start],
          answer |-> end]
    ELSE [question |-> [template |-> "Hvor mange minutter er der mellem {start} og {end}?",
                        start |-> start, end |-> end],
          answer |-> duration]

\* the loop's exit test, line 262
DurationOnSide(duration, side) == split_is_train(Rational(duration, 1)) = side

-----------------------------------------------------------------------------
(* The generators as a state machine: one call at a time.                  *)

\* the bindings of (is_train, is_extrapolation) made by train, test and
\* test_extra, lines 35-62
ConversionBindings == {<<TRUE, FALSE>>, <<FALSE, FALSE>>, <<FALSE, TRUE>>}

TimeBindings == {TRUE, FALSE}

\* one more rejected candidate
Rejected(count) == Min(count + 1, RetryLimit + 1)

\* the exact value a wrapper or a bare rational stands for
ValueOf(x) ==
    IF "value" \in DOMAIN x THEN x.value
    ELSE IF "words" \in DOMAIN x THEN x.words
    ELSE x

GenInit ==
    /\ pc = "idle"
    /\ module = "none"
    /\ is_train = Unset
    /\ is_extrapolation = Unset
    /\ start_minutes = Unset
    /\ duration_minutes = Unset
    /\ end_minutes = Unset
    /\ which_question = Unset
    /\ dimension = Unset
    /\ entropy = Unset
    /\ allow_zero = Unset
    /\ base_unit = Unset
    /\ target_unit = Unset
    /\ base_value = Unset
    /\ answer = Unset
    /\ attempts = 0
    /\ problem = Unset

\* a new call starts with fresh locals
FreshLocals ==
    /\ duration_minutes' = Unset
    /\ end_minutes' = Unset
    /\ which_question' = Unset
    /\ entropy' = Unset
    /\ base_unit' = Unset
    /\ target_unit' = Unset
    /\ base_value' = Unset
    /\ answer' = Unset
    /\ attempts' = 0
    /\ problem' = Unset

\* time(is_train), lines 256-259: up to the loop
Time ==
    /\ pc = "idle"
    /\ \E side \in TimeBindings, start \in StartDraws :
          /\ is_train' = side
          /\ start_minutes' = start
    /\ module' = "time"
    /\ is_extrapolation' = Unset
    /\ dimension' = Unset
    /\ allow_zero' = Unset
    /\ pc' = "time_loop"
    /\ FreshLocals
    /\ UNCHANGED poolVars

\* time, line 261: a duration is drawn
TimeDraw ==
    /\ pc = "time_loop"
    /\ \E duration \in DurationDraws : duration_minutes' = duration
    /\ pc' = "time_test"
    /\ UNCHANGED <<module, is_train, is_extrapolation, start_minutes, end_minutes,
                   which_question, dimension, entropy, allow_zero, base_unit,
                   target_unit, base_value, answer, attempts, problem>>
    /\ UNCHANGED poolVars

\* time, lines 262-263, test false: the loop goes round.  The rejected draw is
\* dead (line 261 overwrites it before any read), so it is dropped here.
TimeRetry ==
    /\ pc = "time_test"
    /\ ~DurationOnSide(duration_minutes, is_train)
    /\ duration_minutes' = Unset
    /\ attempts' = Rejected(attempts)
    /\ pc' = "time_loop"
    /\ UNCHANGED <<module, is_train, is_extrapolation, start_minutes, end_minutes,
                   which_question, dimension, entropy, allow_zero, base_unit,
                   target_unit, base_value, answer, problem>>
    /\ UNCHANGED poolVars

\* time, lines 262-312, test true: the loop is left and the Problem returned
TimeReturn ==
    /\ pc = "time_test"
    /\ DurationOnSide(duration_minutes, is_train)
    /\ end_minutes' = start_minutes + duration_minutes
    /\ \E w \in WhichDraws :
          /\ which_question' = w
          /\ problem' = TimeProblem(w, duration_minutes,
                                    format_24hr(start_minutes),
                                    format_24hr(end_minutes'))
    /\ pc' = "done"
    /\ UNCHANGED <<module, is_train, is_extrapolation, start_minutes,
                   duration_minutes, dimension, entropy, allow_zero, base_unit,
                   target_unit, base_value, answer, attempts>>
    /\ UNCHANGED poolVars

\* conversion(is_train, is_extrapolation), lines 244-253, with the first
\* statements of the form it calls (lines 161 and 198-201)
Conversion ==
    /\ pc = "idle"
    /\ \E binding \in ConversionBindings, coin \in {FALSE, TRUE},
          dim \in 1..Len(DIMENSIONS) :
          /\ is_train' = binding[1]
          /\ is_extrapolation' = binding[2]
          /\ dimension' = dim
          /\ \/ /\ binding[2] \/ coin
                /\ module' = "conversion_decimal"
                /\ allow_zero' = Unset
                /\ pc' = "decimal_loop"
             \/ /\ ~(binding[2] \/ coin)
                /\ module' = "conversion_fraction"
                /\ \E zero \in BOOLEAN : allow_zero' = zero
                /\ pc' = "fraction_loop"
    /\ start_minutes' = Unset
    /\ FreshLocals
    /\ UNCHANGED poolVars

\* _conversion_decimal, lines 163-165: the call of _sample_conversion_decimal
DecimalDraw ==
    /\ pc = "decimal_loop"
    /\ entropy' = DecimalEntropy(is_extrapolation)
    /\ \E sample \in DecimalSamples[dimension][is_extrapolation] :
          /\ base_value' = sample.base_value
          /\ base_unit' = sample.base_unit
          /\ answer' = sample.target_value
          /\ target_unit' = sample.target_unit
    /\ pc' = "decimal_test"
    /\ UNCHANGED <<module, is_train, is_extrapolation, start_minutes,
                   duration_minutes, end_minutes, which_question, dimension,
                   allow_zero, attempts, problem>>
    /\ UNCHANGED poolVars

\* the four values the loop of _conversion_decimal holds
CurrentSample ==
    [base_value |-> base_value, base_unit |-> base_unit,
     target_value |-> answer, target_unit |-> target_unit]

\* _conversion_decimal, lines 166-167, test false: the loop goes round.  The
\* rejected sample is dead (overwritten before any read) and dropped.
DecimalRetry ==
    /\ pc = "decimal_test"
    /\ ~DecimalOnSide(CurrentSample, is_train)
    /\ base_value' = Unset
    /\ base_unit' = Unset
    /\ answer' = Unset
    /\ target_unit' = Unset
    /\ attempts' = Rejected(attempts)
    /\ pc' = "decimal_loop"
    /\ UNCHANGED <<module, is_train, is_extrapolation, start_minutes,
                   duration_minutes, end_minutes, which_question, dimension,
                   entropy, allow_zero, problem>>
    /\ UNCHANGED poolVars

\* _conversion_decimal, lines 166-193, test true: the Problem is returned
DecimalReturn ==
    /\ pc = "decimal_test"
    /\ DecimalOnSide(CurrentSample, is_train)
    /\ \E template \in 1..DecimalTemplates(base_unit) :
          problem' =
             [question |->
                 [template |-> template,
                  base_name |-> pluralize(base_unit.name),
                  base_symbol |-> base_unit.symbol,
                  base_value |-> base_value,
                  target_name |-> pluralize(target_unit.name)],
              answer |-> answer]
    /\ pc' = "done"
    /\ UNCHANGED <<module, is_train, is_extrapolation, start_minutes,
                   duration_minutes, end_minutes, which_question, dimension,
                   entropy, allow_zero, base_unit, target_unit, base_value,
                   answer, attempts>>
    /\ UNCHANGED poolVars

\* _conversion_fraction, lines 206-207: a unit pair and a base value are drawn
FractionDraw ==
    /\ pc = "fraction_loop"
    /\ \E drawn \in FractionDraws[dimension] :
          /\ base_unit' = drawn.base_unit
          /\ target_unit' = drawn.target_unit
          /\ base_value' = drawn.base_value
    /\ pc' = "fraction_side"
    /\ UNCHANGED <<module, is_train, is_extrapolation, start_minutes,
                   duration_minutes, end_minutes, which_question, dimension,
                   entropy, allow_zero, answer, attempts, problem>>
    /\ UNCHANGED poolVars

\* _conversion_fraction, lines 208-214: on the wrong side the loop goes round
\* (the draw is dead and dropped); otherwise the answer is computed
FractionSide ==
    /\ pc = "fraction_side"
    /\ \/ /\ split_is_train(base_value) # is_train
          /\ base_unit' = Unset
          /\ target_unit' = Unset
          /\ base_value' = Unset
          /\ attempts' = Rejected(attempts)
          /\ pc' = "fraction_loop"
          /\ UNCHANGED answer
       \/ /\ split_is_train(base_value) = is_train
          /\ answer' = FractionAnswer(base_value,
                                      DIMENSIONS[dimension][base_unit],
                                      DIMENSIONS[dimension][target_unit])
          /\ pc' = "fraction_test"
          /\ UNCHANGED <<base_unit, target_unit, base_value, attempts>>
    /\ UNCHANGED <<module, is_train, is_extrapolation, start_minutes,
                   duration_minutes, end_minutes, which_question, dimension,
                   entropy, allow_zero, problem>>
    /\ UNCHANGED poolVars

\* _conversion_fraction, lines 215-220, test false: the loop goes round (the
\* candidate is dead and dropped)
FractionRetry ==
    /\ pc = "fraction_test"
    /\ ~FractionAccepts(answer, allow_zero)
    /\ base_unit' = Unset
    /\ target_unit' = Unset
    /\ base_value' = Unset
    /\ answer' = Unset
    /\ attempts' = Rejected(attempts)
    /\ pc' = "fraction_loop"
    /\ UNCHANGED <<module, is_train, is_extrapolation, start_minutes,
                   duration_minutes, end_minutes, which_question, dimension,
                   entropy, allow_zero, problem>>
    /\ UNCHANGED poolVars

\* _conversion_fraction, lines 215-241, test true: the Problem is returned
FractionReturn ==
    /\ pc = "fraction_test"
    /\ FractionAccepts(answer, allow_zero)
    /\ \E template \in 1..2, coin \in {FALSE, TRUE} :
          problem' =
             [question |->
                 [template |-> template,
                  base_name |-> base_unit.name,
                  base_value |->
                     IF SatDenom(base_value) > 20 \/ coin
                     THEN base_value ELSE StringNumber(base_value),
                  target_name |-> pluralize(target_unit.name)],
              answer |-> answer]
    /\ pc' = "done"
    /\ UNCHANGED <<module, is_train, is_extrapolation, start_minutes,
                   duration_minutes, end_minutes, which_question, dimension,
                   entropy, allow_zero, base_unit, target_unit, base_value,
                   answer, attempts>>
    /\ UNCHANGED poolVars

\* the caller takes the Problem and goes on to its next call
\* (generate_to_file.py, lines 63-64)
NextCall ==
    /\ pc = "done"
    /\ pc' = "idle"
    /\ module' = "none"
    /\ is_train' = Unset
    /\ is_extrapolation' = Unset
    /\ start_minutes' = Unset
    /\ dimension' = Unset
    /\ allow_zero' = Unset
    /\ FreshLocals
    /\ UNCHANGED poolVars

-----------------------------------------------------------------------------
(* generate_to_file.py: main and the tasks of its worker pool.             *)

\* Pool(processes=22), line 91
Processes == 22
\* generate.counts[regime] is PerModule for every regime
PerModule == 2
\* generate.sample_from_module(module) yields one of NumProblems problems
NumProblems == 2

\* FLAGS.output_dir after expanduser, line 78
output_dir == <<"output_dir">>

\* generate.filtered_modules after init_modules: regime -> module name -> module,
\* in the order of the dictionaries.  As in measurement.py, the training
\* regime holds both modules and the extrapolation regime conversion alone.
filtered_modules ==
    << [regime |-> "train",
        flat_modules |-> <<"measurement__conversion", "measurement__time">>],
       [regime |-> "extrapolate",
        flat_modules |-> <<"measurement__conversion">>] >>

\* generate.counts, line 88
counts(regime) == PerModule

\* generate.sample_from_module(module), line 64: the Problems it can return
sample_from_module(regime_dir, module_name) ==
    {[question |-> <<regime_dir, module_name, "question", i>>,
      answer |-> <<regime_dir, module_name, "answer", i>>] : i \in 1..NumProblems}

\* os.path.join(output_dir, regime), line 86
RegimeDir(regime) == output_dir \o <<regime>>

\* the path without the directory of the regime
TaskPathNoDir(regime_dir, module_name) == <<<<module_name, ".txt">>>>

\* os.path.join(regime_dir, module_name + ".txt"), line 61
TaskPath(regime_dir, module_name) == regime_dir \o <<<<module_name, ".txt">>>>

\* the dictionary written for one problem, lines 65-70
Record(p) ==
    [source |-> "DM-Math-DA", text |-> <<p.question, "\n", p.answer>>]

\* the tuples appended for one regime, lines 89-90
RegimeArgs(entry) ==
    [k \in 1..Len(entry.flat_modules) |->
        [module_name |-> entry.flat_modules[k],
         module |-> <<entry.regime, entry.flat_modules[k]>>,
         regime_dir |-> RegimeDir(entry.regime),
         per_module |-> counts(entry.regime)]]

Tasks == DOMAIN all_regime_args

PathOf(t) == TaskPath(all_regime_args[t].regime_dir, all_regime_args[t].module_name)

\* state when main reaches its for loop, line 84
PoolInit ==
    /\ all_regime_args = <<>>
    /\ regimes_left = filtered_modules
    /\ made_dirs = {output_dir}
    /\ taskpc = <<>>
    /\ written = <<>>
    /\ files = <<>>
    /\ openers = <<>>

\* main, lines 85-90: one iteration of the loop over the regimes
MainRegime ==
    /\ regimes_left # <<>>
    /\ RegimeDir(Head(regimes_left).regime) \notin made_dirs
    /\ made_dirs' = made_dirs \cup {RegimeDir(Head(regimes_left).regime)}
    /\ all_regime_args' = all_regime_args \o RegimeArgs(Head(regimes_left))
    /\ taskpc' = taskpc \o [k \in 1..Len(Head(regimes_left).flat_modules) |-> "queued"]
    /\ written' = written \o [k \in 1..Len(Head(regimes_left).flat_modules) |-> 0]
    /\ regimes_left' = Tail(regimes_left)
    /\ UNCHANGED <<files, openers>>
    /\ UNCHANGED genVars

\* the pool hands the next task to an idle worker, lines 91-92
PoolTake ==
    /\ regimes_left = <<>>
    /\ \E t \in Tasks :
          /\ taskpc[t] = "queued"
          /\ \A u \in Tasks : u < t => taskpc[u] # "queued"
          /\ Cardinality({u \in Tasks : taskpc[u] \in {"taken", "open"}}) < Processes
          /\ taskpc' = [taskpc EXCEPT ![t] = "taken"]
    /\ UNCHANGED <<all_regime_args, regimes_left, made_dirs, written, files, openers>>
    /\ UNCHANGED genVars

\* generate_to_file, lines 59-62: the file is opened for writing (truncated)
TaskOpen ==
    /\ \E t \in Tasks :
          /\ taskpc[t] = "taken"
          /\ taskpc' = [taskpc EXCEPT ![t] = "open"]
          /\ files' = [q \in DOMAIN files \cup {PathOf(t)} |->
                          IF q = PathOf(t) THEN <<>> ELSE files[q]]
          /\ openers' = [q \in DOMAIN openers \cup {PathOf(t)} |->
                          IF q = PathOf(t)
                          THEN (IF q \in DOMAIN openers THEN openers[q] ELSE {}) \cup {t}
                          ELSE openers[q]]
    /\ UNCHANGED <<all_regime_args, regimes_left, made_dirs, written>>
    /\ UNCHANGED genVars

\* generate_to_file, lines 63-70: one iteration of the loop
TaskWrite ==
    /\ \E t \in Tasks :
          /\ taskpc[t] = "open"
          /\ written[t] < all_regime_args[t].per_module
          /\ \E p \in sample_from_module(all_regime_args[t].regime_dir,
                                         all_regime_args[t].module_name) :
                files' = [files EXCEPT ![PathOf(t)] = Append(@, Record(p))]
          /\ written' = [written EXCEPT ![t] = @ + 1]
    /\ UNCHANGED <<all_regime_args, regimes_left, made_dirs, taskpc, openers>>
    /\ UNCHANGED genVars

\* generate_to_file, lines 62 and 71: the loop is over, the file is closed
TaskClose ==
    /\ \E t \in Tasks :
          /\ taskpc[t] = "open"
          /\ written[t] = all_regime_args[t].per_module
          /\ taskpc' = [taskpc EXCEPT ![t] = "done"]
          /\ openers' = [openers EXCEPT ![PathOf(t)] = @ \ {t}]
    /\ UNCHANGED <<all_regime_args, regimes_left, made_dirs, written, files>>
    /\ UNCHANGED genVars

Init == GenInit /\ PoolInit

Next ==
    \/ Time
    \/ TimeDraw
    \/ TimeRetry
    \/ TimeReturn
    \/ Conversion
    \/ DecimalDraw
    \/ DecimalRetry
    \/ DecimalReturn
    \/ FractionDraw
    \/ FractionSide
    \/ FractionRetry
    \/ FractionReturn
    \/ NextCall

Spec == Init /\ [][Next]_vars

NextPool ==
    \/ MainRegime
    \/ PoolTake
    \/ TaskOpen
    \/ TaskWrite
    \/ TaskClose

SpecPool == Init /\ [][NextPool]_vars

-----------------------------------------------------------------------------
(* Properties.                                                             *)

TimeReturned == pc = "done" /\ module = "time"

DecimalReturned == pc = "done" /\ module = "conversion_decimal"

FractionReturned == pc = "done" /\ module = "conversion_fraction"

DigitOf(char) == CHOOSE k \in 0..9 : DigitChars[k + 1] = char

\* minutes from midnight that a rendered "HH:MM" stands for
MinutesOf(text) ==
    (DigitOf(text[1]) * 10 + DigitOf(text[2])) * 60
        + DigitOf(text[4]) * 10 + DigitOf(text[5])

\* the three quantities as the returned Problem states them
RenderedStart ==
    IF QuestionForm(which_question) = "start"
    THEN problem.answer ELSE problem.question.start

RenderedEnd ==
    IF QuestionForm(which_question) = "end"
    THEN problem.answer ELSE problem.question.end

StatedDuration ==
    IF QuestionForm(which_question) = "duration"
    THEN problem.answer ELSE problem.question.duration

\* C1: in every Problem time() returns, whatever the question variant, the
\* minute values satisfy end = start + duration without wrap (start in
\* 1..1439, duration in 1..719), and the rendered values satisfy
\* minutes(end) = (minutes(start) + duration) mod 1440, so that the duration
\* is (end - start) mod 1440.
C1_TimeClosure ==
    TimeReturned =>
        /\ start_minutes \in 1..(24 * 60 - 1)
        /\ duration_minutes \in 1..(12 * 60 - 1)
        /\ end_minutes = start_minutes + duration_minutes
        /\ StatedDuration = duration_minutes
        /\ MinutesOf(RenderedStart) = start_minutes
        /\ MinutesOf(RenderedEnd) = (MinutesOf(RenderedStart) + StatedDuration) % 1440
        /\ StatedDuration = (MinutesOf(RenderedEnd) - MinutesOf(RenderedStart)) % 1440

\* start 23:50, duration 20: the end is rendered 00:10 (here as the answer)
C1_Witness ==
    /\ TimeReturned
    /\ start_minutes = 23 * 60 + 50
    /\ duration_minutes = 20
    /\ end_minutes >= 24 * 60
    /\ which_question = 1
    /\ problem.answer = <<"0", "0", ":", "1", "0">>

\* the value a returned Problem was partitioned on
PartitionedValue ==
    IF module = "time" THEN Rational(StatedDuration, 1)
    ELSE ValueOf(problem.question.base_value)

\* the values each generator can return for a side: those its loop lets through
Returnable(side) ==
    {Rational(d, 1) : d \in {x \in DurationDraws : DurationOnSide(x, side)}}
    \cup UNION {{sample.base_value.value :
                    sample \in {x \in DecimalSamples[dim][extrapolation] :
                                   DecimalOnSide(x, side)}} :
                <<dim, extrapolation>> \in (1..Len(DIMENSIONS)) \X BOOLEAN}
    \cup UNION {{drawn.base_value :
                    drawn \in {x \in FractionDraws[dim] :
                                  split_is_train(x.base_value) = side}} :
                dim \in 1..Len(DIMENSIONS)}

ReturnableTrain == Returnable(TRUE)

ReturnableTest == Returnable(FALSE)

\* C2: every Problem returned by a call with is_train = s is built from a
\* partitioned value v (duration, shown base value) with is_train(v) = s; the
\* values usable with is_train=True and those usable with is_train=False
\* do not intersect.
C2_SideRespected ==
    /\ pc = "done" =>
          /\ split_is_train(PartitionedValue) = is_train
          /\ PartitionedValue \in (IF is_train THEN ReturnableTrain ELSE ReturnableTest)
    /\ ReturnableTrain \cap ReturnableTest = {}

\* a test-side decimal conversion whose shown base value is not the drawn one
C2_Witness ==
    /\ DecimalReturned
    /\ is_train = FALSE
    /\ factor_non_decimal(Denom(RDiv(DIMENSIONS[dimension][base_unit],
                                     DIMENSIONS[dimension][target_unit]))) > 1

UnitRatio == RDiv(DIMENSIONS[dimension][base_unit], DIMENSIONS[dimension][target_unit])

\* C3: in every conversion Problem (decimal and fraction form) the units are
\* two distinct units of one dimension and the answer is exactly b * r, b the
\* base value in the question and r = scale(u1) / scale(u2).
C3_ConversionExact ==
    (DecimalReturned \/ FractionReturned) =>
        /\ base_unit \in DOMAIN DIMENSIONS[dimension]
        /\ target_unit \in DOMAIN DIMENSIONS[dimension]
        /\ base_unit # target_unit
        /\ ValueOf(problem.answer)
              = RMul(ValueOf(problem.question.base_value), UnitRatio)

\* months to years: the shown base value is three times the drawn one
C3_Witness ==
    /\ DecimalReturned
    /\ base_unit.name = "maaned"
    /\ target_unit.name = "aar"
    /\ ValueOf(problem.answer) = Rational(1, 40)

\* C4: each rejection loop performs at most a fixed number of attempts
\* (RetryLimit rejections), after which the call fails instead of sampling again.
C4_BoundedAttempts == attempts <= RetryLimit

Forms == {"start", "end", "duration"}

OutcomesSelecting(form) == {w \in WhichDraws : QuestionForm(w) = form}

\* C5: time() chooses among the three forms uniformly: each form is selected
\* by as many outcomes of the selector as the form just asked; each form
\* states the other two quantities and has the third as its answer.
C5_UniformForms ==
    TimeReturned =>
        /\ \A form \in Forms :
              Cardinality(OutcomesSelecting(form))
                 = Cardinality(OutcomesSelecting(QuestionForm(which_question)))
        /\ DOMAIN problem.question \ {"template"}
              = Forms \ {QuestionForm(which_question)}

\* a value whose denominator in lowest terms has no prime factor but 2 and 5
Terminating(a) == a.d = 1 /\ a.e[3] >= 0 /\ a.e[7] >= 0

\* C6: for every candidate of the decimal form (every dimension, unit pair
\* and drawn value) the target value and the shown base value are
\* terminating decimals.
C6_DecimalRepresentable ==
    (module = "conversion_decimal" /\ pc \in {"decimal_test", "done"}) =>
        /\ Terminating(answer.value)
        /\ Terminating(base_value.value)
        /\ answer.value = RMul(base_value.value, UnitRatio)

\* seconds to weeks: the denominator 604800 has the non-decimal part 189
C6_Witness ==
    /\ DecimalReturned
    /\ base_unit.name = "sekund"
    /\ target_unit.name = "uge"
    /\ factor_non_decimal(Denom(UnitRatio)) = 189

\* the candidate an iteration of the fraction loop has just drawn
CandidateAnswer ==
    FractionAnswer(base_value, DIMENSIONS[dimension][base_unit],
                   DIMENSIONS[dimension][target_unit])

CandidateFails ==
    \/ split_is_train(base_value) # is_train
    \/ ~DenomIsOne(CandidateAnswer)
    \/ ~AbsLeq(CandidateAnswer, 100000)
    \/ (~allow_zero /\ IsZero(CandidateAnswer))

C7_Returned ==
    FractionReturned =>
        /\ DenomIsOne(problem.answer)
        /\ AbsLeq(problem.answer, 100000)
        /\ Comparable(problem.answer, 100000)
        /\ (~allow_zero => ~IsZero(problem.answer))
        /\ problem.answer = CandidateAnswer

C7_Drawn ==
    (module = "conversion_fraction"
        /\ pc \in {"fraction_side", "fraction_test", "done"}) =>
        /\ base_unit \in DOMAIN DIMENSIONS[dimension]
        /\ target_unit \in DOMAIN DIMENSIONS[dimension]
        /\ base_unit # target_unit
        /\ Comparable(CandidateAnswer, 100000)
        /\ (pc = "fraction_test" => answer = CandidateAnswer)

\* a failing candidate is not returned: the next step rejects it
C7_FailingRejected ==
    (pc \in {"fraction_side", "fraction_test"} /\ CandidateFails)
        => (pc' \in {"fraction_loop", "fraction_test"} /\ pc' # pc)

\* a candidate that passes is returned
C7_PassingReturned ==
    (pc = "fraction_test" /\ ~CandidateFails) => pc' = "done"

\* the loop keeps its dimension, its allow_zero and its side
C7_SameDimension ==
    pc \in {"fraction_loop", "fraction_side", "fraction_test"}
        => (dimension' = dimension /\ allow_zero' = allow_zero /\ is_train' = is_train)

\* C7: every Problem of the fraction form has an integer answer of magnitude
\* at most 100000, non-zero unless zero was allowed; a candidate failing one of
\* these, or on the wrong side, is rejected, and the loop draws again within
\* the same dimension.
C7_FractionAnswers ==
    /\ [](C7_Returned /\ C7_Drawn)
    /\ [][C7_FailingRejected /\ C7_PassingReturned /\ C7_SameDimension]_vars

\* a Problem returned after rejections, zero not allowed
C7_Witness ==
    /\ FractionReturned
    /\ attempts > 0
    /\ allow_zero = FALSE
    /\ problem.answer = Rational(500, 1)

\* C8: with is_extrapolation=True the Problem comes from the decimal form,
\* never the fraction form, the entropy is 9, above the 7 used otherwise, and
\* the returned base value is on the test side.
C8_Extrapolation ==
    module \in {"conversion_decimal", "conversion_fraction"} =>
        /\ is_extrapolation =>
              /\ module = "conversion_decimal"
              /\ is_train = FALSE
              /\ base_value # Unset => entropy = 9
              /\ pc = "done" =>
                    split_is_train(ValueOf(problem.question.base_value)) = FALSE
        /\ (~is_extrapolation /\ module = "conversion_decimal" /\ base_value # Unset) =>
              entropy = 7
        /\ DecimalEntropy(TRUE) > DecimalEntropy(FALSE)

C8_Witness ==
    /\ DecimalReturned
    /\ is_extrapolation = TRUE
    /\ entropy = 9
    /\ attempts > 0

\* C9: a candidate answer of the fraction form is never zero, so allow_zero
\* never changes which candidates are accepted.
C9_ZeroNeverArises ==
    (module = "conversion_fraction" /\ answer # Unset) =>
        /\ ~IsZero(answer)
        /\ FractionAccepts(answer, TRUE) = FractionAccepts(answer, FALSE)

\* a Problem returned with zero allowed, after a candidate was rejected
C9_Witness ==
    /\ FractionReturned
    /\ allow_zero = TRUE
    /\ attempts > 0

\* C10: the tasks have pairwise different paths; no file is ever held open by
\* two tasks; the file of a completed task holds exactly per_module records,
\* each the question followed by the answer of one problem of its module.
C10_TasksDisjoint ==
    /\ \A t, u \in Tasks : t # u => PathOf(t) # PathOf(u)
    /\ \A q \in DOMAIN openers : Cardinality(openers[q]) <= 1
    /\ \A t \in Tasks :
          taskpc[t] = "done" =>
             /\ Len(files[PathOf(t)]) = all_regime_args[t].per_module
             /\ \A k \in 1..Len(files[PathOf(t)]) :
                   \E p \in sample_from_module(all_regime_args[t].regime_dir,
                                               all_regime_args[t].module_name) :
                      files[PathOf(t)][k] = Record(p)

\* one task done while two others, of the same module name, write at once
C10_Witness ==
    /\ \E t, u \in Tasks :
          /\ t # u
          /\ all_regime_args[t].module_name = all_regime_args[u].module_name
          /\ taskpc[t] = "open" /\ written[t] = 1
          /\ taskpc[u] = "open" /\ written[u] = 1
    /\ \E t \in Tasks : taskpc[t] = "done"

====
